---- MODULE Spec2Model ----
(***************************************************************************)
(* AndOr (caltechlibrary): the Flask routes of app/routes.py as a state    *)
(* machine.  State: the two dataset collections (cfg.USERS, cfg.OBJECTS),  *)
(* each browser session's stored user id, the /people requests that are    *)
(* between their existence check and their write, and a record of the      *)
(* request that completed last (its response, its flash messages and the   *)
(* store calls it made).                                                   *)
(***************************************************************************)
EXTENDS Naturals, Sequences, FiniteSets, TLC

VARIABLES
    users,              \* cfg.USERS collection: username -> stored record
    objects,            \* cfg.OBJECTS collection: cl_people_id -> stored record
    session,            \* session['_user_id'] of every browser session
    pc,                 \* where each session's request to /people stands
    req,                \* the /people request in flight of each session
    last,               \* the request that completed last
    loaded_is_authenticated, \* User.is_authenticated of a freshly built User
    removed             \* identity records removed by external provisioning

vars == <<users, objects, session, pc, req, last, loaded_is_authenticated, removed>>

----------------------------------------------------------------------------
\* Bounds of the model.

\* How many identity records external provisioning may remove in one run.
MaxRemoved == 1

Sessions == {"s1", "s2"}

\* "ghost" is never provisioned.
Usernames == {"alice", "bob", "ghost"}
Provisioned == {"alice", "bob"}

Passwords == {"pw-a", "pw-b"}
PasswordOf(u) == IF u = "alice" THEN "pw-a" ELSE "pw-b"

\* Non-empty cl_people_id values; "" is the empty key a form can also carry.
Keys == {"smith-j", "doe-a"}

\* The requests to /login: a GET, which submits nothing, and the POSTs.
LoginRequests ==
    {[method |-> "GET", valid |-> FALSE, username |-> "", password |-> "",
      remember_me |-> FALSE]}
    \cup [method : {"POST"}, valid : BOOLEAN, username : Usernames,
          password : Passwords, remember_me : BOOLEAN]

\* The fields of PeopleForm, in the order routes.py copies them.
PeopleFields ==
    {"cl_people_id", "family_name", "given_name", "thesis_id", "authors_id",
     "archivesspace_id", "directory_id", "viaf", "lcnaf", "isni", "wikidata",
     "snac", "orcid", "image", "educated_at", "caltech", "jpl", "faculty",
     "alumn", "notes"}

\* A submitted form: every field the request leaves out carries the blank "".
BlankForm == [f \in PeopleFields |-> ""]

FormOf(key, family_name, given_name) ==
    [BlankForm EXCEPT !["cl_people_id"] = key,
                      !["family_name"] = family_name,
                      !["given_name"] = given_name]

\* The submissions of the model: a full one and one that leaves given_name
\* out, for every key and for the empty key.
PeopleForms ==
    {FormOf(key, "Smith", "Jane") : key \in Keys \cup {""}}
    \cup {FormOf(key, "Smith-Jones", "") : key \in Keys \cup {""}}

\* The requests to /people: a GET, which submits nothing, and the POSTs.
PeopleRequests ==
    {[method |-> "GET", form |-> BlankForm, others_ok |-> FALSE]}
    \cup [method : {"POST"}, form : PeopleForms, others_ok : BOOLEAN]

\* No '_user_id' entry in the session.
NoUserId == "<no _user_id>"

\* Python's None, as returned by load_user.
None == [none |-> TRUE]

----------------------------------------------------------------------------
\* py_dataset, by its contract: has_key / create / update on a collection.
\* A mutating call returns '' or an error text; `fault` is a failure of the
\* storage engine itself.

has_key(collection, key) == key \in DOMAIN collection

create(collection, key, obj, fault) ==
    IF fault THEN [collection |-> collection, err |-> "storage failure"]
    ELSE IF key \in DOMAIN collection
    THEN [collection |-> collection, err |-> "key already exists"]
    ELSE [collection |-> [k \in DOMAIN collection \cup {key} |->
                             IF k = key THEN obj ELSE collection[k]],
          err |-> ""]

update(collection, key, obj, fault) ==
    IF fault THEN [collection |-> collection, err |-> "storage failure"]
    ELSE IF key \notin DOMAIN collection
    THEN [collection |-> collection, err |-> "key not found"]
    ELSE [collection |-> [collection EXCEPT ![key] = obj], err |-> ""]

\* One store call as the call log records it.
Call(op, c_name) == [op |-> op, c_name |-> c_name]

----------------------------------------------------------------------------
\* app.models.User

\* werkzeug's password hash, a tuple of method and digest: no two passwords
\* of the model share a hash, and none hashes to the empty hash << >>.
generate_password_hash(password) == <<"pbkdf2:sha256", password>>

check_password_hash(pwhash, password) == pwhash = generate_password_hash(password)

\* User(username): the identity built from the stored record, or an identity
\* with no credential when the collection holds no such record.  The class is
\* not among the sources: a loaded identity is "not yet verified"
\* (is_authenticated false) by its description, while a logged-in session is
\* meant to pass the gate, so the flag of a loaded identity is either value,
\* fixed for a run (loaded_is_authenticated).
User(username) ==
    IF has_key(users, username)
    THEN [username |-> username,
          password_hash |-> users[username].password_hash,
          display_name |-> users[username].display_name,
          is_authenticated |-> loaded_is_authenticated,
          is_active |-> TRUE,
          is_anonymous |-> FALSE]
    ELSE [username |-> username,
          password_hash |-> << >>,
          display_name |-> "",
          is_authenticated |-> loaded_is_authenticated,
          is_active |-> TRUE,
          is_anonymous |-> FALSE]

check_password(u, password) == check_password_hash(u.password_hash, password)

\* The store calls of one User(username).
UserCalls == <<Call("has_key", "USERS")>>

----------------------------------------------------------------------------
\* Session handling (flask_login) and the user loader.

\* A faulty variant of the loader that builds the User without asking the
\* identity collection for the key first.
load_user_unchecked(user_id) == User(user_id)

\* The user loader (routes.py 8-16).
load_user(user_id) ==
    IF has_key(users, user_id) = FALSE
    THEN None
    ELSE User(user_id)

\* flask_login's AnonymousUserMixin.
AnonymousUser ==
    [username |-> "", password_hash |-> << >>, display_name |-> "",
     is_authenticated |-> FALSE, is_active |-> FALSE, is_anonymous |-> TRUE]

\* current_user of a request of session s: the anonymous user when the
\* session stores no user id or the loader returns None.
current_user(s) ==
    IF session[s] = NoUserId THEN AnonymousUser
    ELSE IF load_user(session[s]) = None THEN AnonymousUser
    ELSE load_user(session[s])

\* The store calls that resolving the current user of a session with stored
\* user id `user_id` makes.
LoaderCalls(user_id) ==
    IF user_id = NoUserId THEN << >>
    ELSE IF has_key(users, user_id) = FALSE THEN <<Call("has_key", "USERS")>>
    ELSE <<Call("has_key", "USERS")>> \o UserCalls

LoadCalls(s) == LoaderCalls(session[s])

\* login_user(user, remember, fresh): stores the user's id in the session.
\* `remember` only asks for a cookie that outlives the browser session.
login_user(sess, s, u, remember) == [sess EXCEPT ![s] = u.username]

\* logout_user(): drops the user id from the session.
logout_user(sess, s) == [sess EXCEPT ![s] = NoUserId]

----------------------------------------------------------------------------
\* app.forms (flask_wtf)

\* PeopleForm.validate(): cl_people_id is required; `others_ok` is the verdict
\* of the form layer's remaining validators (CSRF token included).
PeopleForm_validate(form, others_ok) == others_ok /\ form.cl_people_id # ""

\* LoginForm.validate(): the verdict of the form layer on the submitted login.
LoginForm_validate(r) == r.valid

\* FlaskForm.validate_on_submit(): a submitting method and a valid form.
validate_on_submit(method, ok) == method = "POST" /\ ok

----------------------------------------------------------------------------
\* The record of a completed request: who asked what (subject is the
\* submitted username or cl_people_id) and what came back.
Completed(s, route, method, subject, response, flash, calls) ==
    [sid |-> s, route |-> route, method |-> method, subject |-> subject,
     response |-> response, flash |-> flash, calls |-> calls]

Init ==
    /\ users = [u \in Provisioned |->
                   [password_hash |-> generate_password_hash(PasswordOf(u)),
                    display_name |-> u]]
    /\ objects = << >>
    /\ session = [s \in Sessions |-> NoUserId]
    /\ pc = [s \in Sessions |-> "idle"]
    /\ req = [s \in Sessions |-> None]
    /\ last = Completed("none", "none", "none", "", "none", << >>, << >>)
    /\ loaded_is_authenticated \in BOOLEAN
    /\ removed = 0

----------------------------------------------------------------------------
\* A login request that passes validate_on_submit.
ValidLoginSubmission(r) == validate_on_submit(r.method, LoginForm_validate(r))

\* The outcome of index() (routes.py 20-37); the template reads current_user.
index_result(s) ==
    [response |-> "render index.html", flash |-> << >>, calls |-> LoadCalls(s)]

\* GET / and /index
index(s) ==
    /\ pc[s] = "idle"
    /\ last' = Completed(s, "index", "GET", "", index_result(s).response,
                         index_result(s).flash, index_result(s).calls)
    /\ UNCHANGED <<users, objects, session, pc, req, loaded_is_authenticated, removed>>

\* Faulty variants of login(): one that accepts any password of a stored
\* user, one that rejects a wrong password but lets an unknown username
\* through, and one that forgets login_user().
login_result_any_password(s, r) ==
    IF current_user(s).is_authenticated
    THEN [session |-> session, response |-> "redirect index",
          flash |-> << >>, calls |-> LoadCalls(s)]
    ELSE IF validate_on_submit(r.method, LoginForm_validate(r))
    THEN IF has_key(users, r.username) = FALSE
         THEN [session |-> session, response |-> "abort 401",
               flash |-> <<"Invalid username or password">>,
               calls |-> LoadCalls(s) \o UserCalls]
         ELSE [session |-> login_user(session, s, User(r.username), r.remember_me),
               response |-> "redirect index",
               flash |-> <<"Logged in successfully.">>,
               calls |-> LoadCalls(s) \o UserCalls]
    ELSE [session |-> session, response |-> "render login.html",
          flash |-> << >>, calls |-> LoadCalls(s)]

login_result_unknown_user(s, r) ==
    IF current_user(s).is_authenticated
    THEN [session |-> session, response |-> "redirect index",
          flash |-> << >>, calls |-> LoadCalls(s)]
    ELSE IF validate_on_submit(r.method, LoginForm_validate(r))
    THEN IF has_key(users, r.username)
            /\ check_password(User(r.username), r.password) = FALSE
         THEN [session |-> session, response |-> "abort 401",
               flash |-> <<"Invalid username or password">>,
               calls |-> LoadCalls(s) \o UserCalls]
         ELSE [session |-> login_user(session, s, User(r.username), r.remember_me),
               response |-> "redirect index",
               flash |-> <<"Logged in successfully.">>,
               calls |-> LoadCalls(s) \o UserCalls]
    ELSE [session |-> session, response |-> "render login.html",
          flash |-> << >>, calls |-> LoadCalls(s)]

login_result_no_bind(s, r) ==
    IF current_user(s).is_authenticated
    THEN [session |-> session, response |-> "redirect index",
          flash |-> << >>, calls |-> LoadCalls(s)]
    ELSE IF validate_on_submit(r.method, LoginForm_validate(r))
    THEN IF check_password(User(r.username), r.password) = FALSE
         THEN [session |-> session, response |-> "abort 401",
               flash |-> <<"Invalid username or password">>,
               calls |-> LoadCalls(s) \o UserCalls]
         ELSE [session |-> session,
               response |-> "redirect index",
               flash |-> <<"Logged in successfully.">>,
               calls |-> LoadCalls(s) \o UserCalls]
    ELSE [session |-> session, response |-> "render login.html",
          flash |-> << >>, calls |-> LoadCalls(s)]

\* A faulty variant of login() that calls login_user before it has the
\* result of check_password.
login_result_binds_first(s, r) ==
    IF current_user(s).is_authenticated
    THEN [session |-> session, response |-> "redirect index",
          flash |-> << >>, calls |-> LoadCalls(s)]
    ELSE IF validate_on_submit(r.method, LoginForm_validate(r))
    THEN IF check_password(User(r.username), r.password) = FALSE
         THEN [session |-> login_user(session, s, User(r.username), r.remember_me),
               response |-> "abort 401",
               flash |-> <<"Invalid username or password">>,
               calls |-> LoadCalls(s) \o UserCalls]
         ELSE [session |-> login_user(session, s, User(r.username), r.remember_me),
               response |-> "redirect index",
               flash |-> <<"Logged in successfully.">>,
               calls |-> LoadCalls(s) \o UserCalls]
    ELSE [session |-> session, response |-> "render login.html",
          flash |-> << >>, calls |-> LoadCalls(s)]

\* A faulty variant of login() without the test of the current user.
login_result_no_short_circuit(s, r) ==
    IF validate_on_submit(r.method, LoginForm_validate(r))
    THEN IF check_password(User(r.username), r.password) = FALSE
         THEN [session |-> session, response |-> "abort 401",
               flash |-> <<"Invalid username or password">>,
               calls |-> LoadCalls(s) \o UserCalls]
         ELSE [session |-> login_user(session, s, User(r.username), r.remember_me),
               response |-> "redirect index",
               flash |-> <<"Logged in successfully.">>,
               calls |-> LoadCalls(s) \o UserCalls]
    ELSE [session |-> session, response |-> "render login.html",
          flash |-> << >>, calls |-> LoadCalls(s)]

\* The outcome of login() for request r of session s (routes.py 86-106).
login_result(s, r) ==
    IF current_user(s).is_authenticated
    THEN [session |-> session, response |-> "redirect index",
          flash |-> << >>, calls |-> LoadCalls(s)]
    ELSE IF validate_on_submit(r.method, LoginForm_validate(r))
    THEN IF check_password(User(r.username), r.password) = FALSE
         THEN [session |-> session, response |-> "abort 401",
               flash |-> <<"Invalid username or password">>,
               calls |-> LoadCalls(s) \o UserCalls]
         ELSE [session |-> login_user(session, s, User(r.username), r.remember_me),
               response |-> "redirect index",
               flash |-> <<"Logged in successfully.">>,
               calls |-> LoadCalls(s) \o UserCalls]
    ELSE [session |-> session, response |-> "render login.html",
          flash |-> << >>, calls |-> LoadCalls(s)]

\* A faulty variant of the route that provisions the submitted username when
\* the identity collection does not hold it.
login_provisions(s, r) ==
    /\ pc[s] = "idle"
    /\ session' = login_result(s, r).session
    /\ last' = Completed(s, "login", r.method, r.username, login_result(s, r).response,
                         login_result(s, r).flash, login_result(s, r).calls)
    /\ users' = IF ValidLoginSubmission(r) /\ ~has_key(users, r.username)
                THEN [u \in DOMAIN users \cup {r.username} |->
                        IF u = r.username
                        THEN [password_hash |-> generate_password_hash(r.password),
                              display_name |-> u]
                        ELSE users[u]]
                ELSE users
    /\ UNCHANGED <<objects, pc, req, loaded_is_authenticated, removed>>

\* GET,POST /login
login(s, r) ==
    /\ pc[s] = "idle"
    /\ session' = login_result(s, r).session
    /\ last' = Completed(s, "login", r.method, r.username, login_result(s, r).response,
                         login_result(s, r).flash, login_result(s, r).calls)
    /\ UNCHANGED <<users, objects, pc, req, loaded_is_authenticated, removed>>

\* A faulty variant of logout() that redirects without logout_user().
logout_result_keeps_session(sess, s) ==
    [session |-> sess, response |-> "redirect index",
     flash |-> << >>, calls |-> LoaderCalls(sess[s])]

\* A faulty variant of logout() with one current identity for all callers.
logout_result_clears_all(sess, s) ==
    [session |-> [o \in DOMAIN sess |-> NoUserId], response |-> "redirect index",
     flash |-> << >>, calls |-> LoaderCalls(sess[s])]

\* The outcome of logout() for a request of session s, the sessions being
\* `sess` (routes.py 109-111); logout_user() resolves the current user first.
logout_result(sess, s) ==
    [session |-> logout_user(sess, s), response |-> "redirect index",
     flash |-> << >>, calls |-> LoaderCalls(sess[s])]

\* GET /logout
logout(s) ==
    /\ pc[s] = "idle"
    /\ session' = logout_result(session, s).session
    /\ last' = Completed(s, "logout", "GET", "", logout_result(session, s).response,
                         logout_result(session, s).flash, logout_result(session, s).calls)
    /\ UNCHANGED <<users, objects, pc, req, loaded_is_authenticated, removed>>

----------------------------------------------------------------------------
\* app.models.People and the /people route

\* People.to_dict(): the record's attributes under their own names.
to_dict(people) == [f \in DOMAIN people |-> people[f]]

\* A faulty variant of the mapping: given_name copied from the wrong field.
people_from_form_typo(form) ==
    [cl_people_id |-> form.cl_people_id,
     family_name |-> form.family_name,
     given_name |-> form.family_name,
     thesis_id |-> form.thesis_id,
     authors_id |-> form.authors_id,
     archivesspace_id |-> form.archivesspace_id,
     directory_id |-> form.directory_id,
     viaf |-> form.viaf,
     lcnaf |-> form.lcnaf,
     isni |-> form.isni,
     wikidata |-> form.wikidata,
     snac |-> form.snac,
     orcid |-> form.orcid,
     image |-> form.image,
     educated_at |-> form.educated_at,
     caltech |-> form.caltech,
     jpl |-> form.jpl,
     faculty |-> form.faculty,
     alumn |-> form.alumn,
     notes |-> form.notes]

\* routes.py 46-66: the form's fields copied one by one into a new People.
people_from_form(form) ==
    [cl_people_id |-> form.cl_people_id,
     family_name |-> form.family_name,
     given_name |-> form.given_name,
     thesis_id |-> form.thesis_id,
     authors_id |-> form.authors_id,
     archivesspace_id |-> form.archivesspace_id,
     directory_id |-> form.directory_id,
     viaf |-> form.viaf,
     lcnaf |-> form.lcnaf,
     isni |-> form.isni,
     wikidata |-> form.wikidata,
     snac |-> form.snac,
     orcid |-> form.orcid,
     image |-> form.image,
     educated_at |-> form.educated_at,
     caltech |-> form.caltech,
     jpl |-> form.jpl,
     faculty |-> form.faculty,
     alumn |-> form.alumn,
     notes |-> form.notes]

\* Faulty variants of people(): one without the gate, one that takes any
\* POST for a validated submission, one that only looks at the key.
people_check_no_gate(s, r) ==
    IF validate_on_submit(r.method, PeopleForm_validate(r.form, r.others_ok))
    THEN [step |-> "write",
          form |-> r.form,
          people |-> people_from_form(r.form),
          key |-> people_from_form(r.form).cl_people_id,
          exists |-> has_key(objects, people_from_form(r.form).cl_people_id),
          calls |-> LoadCalls(s) \o <<Call("has_key", "OBJECTS")>>]
    ELSE [step |-> "done", response |-> "render people.html",
          flash |-> << >>, calls |-> LoadCalls(s)]

people_check_any_post(s, r) ==
    IF current_user(s).is_authenticated = FALSE
    THEN [step |-> "done", response |-> "redirect login",
          flash |-> <<"Must be logged in to curate objects">>,
          calls |-> LoadCalls(s)]
    ELSE IF r.method = "POST"
    THEN [step |-> "write",
          form |-> r.form,
          people |-> people_from_form(r.form),
          key |-> people_from_form(r.form).cl_people_id,
          exists |-> has_key(objects, people_from_form(r.form).cl_people_id),
          calls |-> LoadCalls(s) \o <<Call("has_key", "OBJECTS")>>]
    ELSE [step |-> "done", response |-> "render people.html",
          flash |-> << >>, calls |-> LoadCalls(s)]

people_check_key_only(s, r) ==
    IF current_user(s).is_authenticated = FALSE
    THEN [step |-> "done", response |-> "redirect login",
          flash |-> <<"Must be logged in to curate objects">>,
          calls |-> LoadCalls(s)]
    ELSE IF validate_on_submit(r.method, r.form.cl_people_id # "")
    THEN [step |-> "write",
          form |-> r.form,
          people |-> people_from_form(r.form),
          key |-> people_from_form(r.form).cl_people_id,
          exists |-> has_key(objects, people_from_form(r.form).cl_people_id),
          calls |-> LoadCalls(s) \o <<Call("has_key", "OBJECTS")>>]
    ELSE [step |-> "done", response |-> "render people.html",
          flash |-> << >>, calls |-> LoadCalls(s)]

\* A faulty variant that takes the store key from the family name.
people_check_family_key(s, r) ==
    IF current_user(s).is_authenticated = FALSE
    THEN [step |-> "done", response |-> "redirect login",
          flash |-> <<"Must be logged in to curate objects">>,
          calls |-> LoadCalls(s)]
    ELSE IF validate_on_submit(r.method, PeopleForm_validate(r.form, r.others_ok))
    THEN [step |-> "write",
          form |-> r.form,
          people |-> people_from_form(r.form),
          key |-> people_from_form(r.form).family_name,
          exists |-> has_key(objects, people_from_form(r.form).family_name),
          calls |-> LoadCalls(s) \o <<Call("has_key", "OBJECTS")>>]
    ELSE [step |-> "done", response |-> "render people.html",
          flash |-> << >>, calls |-> LoadCalls(s)]

\* people(), routes.py 40-69: the gate, the validation, the mapping and the
\* existence check.  Step "done" ends the request with a response; step
\* "write" leaves it before its create or update, with what it has so far.
people_check(s, r) ==
    IF current_user(s).is_authenticated = FALSE
    THEN [step |-> "done", response |-> "redirect login",
          flash |-> <<"Must be logged in to curate objects">>,
          calls |-> LoadCalls(s)]
    ELSE IF validate_on_submit(r.method, PeopleForm_validate(r.form, r.others_ok))
    THEN [step |-> "write",
          form |-> r.form,
          people |-> people_from_form(r.form),
          key |-> people_from_form(r.form).cl_people_id,
          exists |-> has_key(objects, people_from_form(r.form).cl_people_id),
          calls |-> LoadCalls(s) \o <<Call("has_key", "OBJECTS")>>]
    ELSE [step |-> "done", response |-> "render people.html",
          flash |-> << >>, calls |-> LoadCalls(s)]

\* GET,POST /people up to the existence check.
people_begin(s, r) ==
    /\ pc[s] = "idle"
    /\ LET c == people_check(s, r)
       IN IF c.step = "done"
          THEN /\ last' = Completed(s, "people", r.method, r.form.cl_people_id,
                                    c.response, c.flash, c.calls)
               /\ UNCHANGED <<pc, req>>
          ELSE /\ pc' = [pc EXCEPT ![s] = "write"]
               /\ req' = [req EXCEPT ![s] = c]
               /\ UNCHANGED last
    /\ UNCHANGED <<users, objects, session, loaded_is_authenticated, removed>>

\* Faulty variants of the write: one with the branches swapped, one that
\* aborts the request when the store reports an error.
people_store_swapped(r, fault) ==
    IF ~r.exists
    THEN LET w == update(objects, r.key, to_dict(r.people), fault)
         IN [objects |-> w.collection,
             call |-> Call("update", "OBJECTS"),
             err |-> w.err,
             response |-> "render people.html",
             flash |-> IF w.err # ""
                       THEN <<"WARNING: failed to update {key} in {c_name}, {err}">>
                       ELSE <<"{people.cl_people_id} updated">>]
    ELSE LET w == create(objects, r.key, to_dict(r.people), fault)
         IN [objects |-> w.collection,
             call |-> Call("create", "OBJECTS"),
             err |-> w.err,
             response |-> "render people.html",
             flash |-> IF w.err # ""
                       THEN <<"WARNING: failed to create {key} in {c_name}, {err}">>
                       ELSE <<"{people.cl_people_id} created">>]

people_store_abort(r, fault) ==
    IF r.exists
    THEN LET w == update(objects, r.key, to_dict(r.people), fault)
         IN [objects |-> w.collection,
             call |-> Call("update", "OBJECTS"),
             err |-> w.err,
             response |-> IF w.err # "" THEN "abort 500" ELSE "render people.html",
             flash |-> IF w.err # ""
                       THEN << >>
                       ELSE <<"{people.cl_people_id} updated">>]
    ELSE LET w == create(objects, r.key, to_dict(r.people), fault)
         IN [objects |-> w.collection,
             call |-> Call("create", "OBJECTS"),
             err |-> w.err,
             response |-> IF w.err # "" THEN "abort 500" ELSE "render people.html",
             flash |-> IF w.err # ""
                       THEN << >>
                       ELSE <<"{people.cl_people_id} created">>]

\* Two more faulty variants of the write: one that looks the key up again
\* when it writes instead of using the result of its earlier has_key, and one
\* whose successful write leaves only the written record in the collection.
people_store_recheck(r, fault) ==
    IF has_key(objects, r.key)
    THEN LET w == update(objects, r.key, to_dict(r.people), fault)
         IN [objects |-> w.collection,
             call |-> Call("update", "OBJECTS"),
             err |-> w.err,
             response |-> "render people.html",
             flash |-> IF w.err # ""
                       THEN <<"WARNING: failed to update {key} in {c_name}, {err}">>
                       ELSE <<"{people.cl_people_id} updated">>]
    ELSE LET w == create(objects, r.key, to_dict(r.people), fault)
         IN [objects |-> w.collection,
             call |-> Call("create", "OBJECTS"),
             err |-> w.err,
             response |-> "render people.html",
             flash |-> IF w.err # ""
                       THEN <<"WARNING: failed to create {key} in {c_name}, {err}">>
                       ELSE <<"{people.cl_people_id} created">>]

people_store_truncates(r, fault) ==
    IF r.exists
    THEN LET w == update(objects, r.key, to_dict(r.people), fault)
         IN [objects |-> IF w.err = ""
                         THEN [k \in {r.key} |-> w.collection[k]]
                         ELSE w.collection,
             call |-> Call("update", "OBJECTS"),
             err |-> w.err,
             response |-> "render people.html",
             flash |-> IF w.err # ""
                       THEN <<"WARNING: failed to update {key} in {c_name}, {err}">>
                       ELSE <<"{people.cl_people_id} updated">>]
    ELSE LET w == create(objects, r.key, to_dict(r.people), fault)
         IN [objects |-> IF w.err = ""
                         THEN [k \in {r.key} |-> w.collection[k]]
                         ELSE w.collection,
             call |-> Call("create", "OBJECTS"),
             err |-> w.err,
             response |-> "render people.html",
             flash |-> IF w.err # ""
                       THEN <<"WARNING: failed to create {key} in {c_name}, {err}">>
                       ELSE <<"{people.cl_people_id} created">>]

\* people(), routes.py 69-82, for the pending request r: update when the key
\* was found, create when not, the message flashed for the outcome (the text
\* is the literal of the source, which is no f-string) and the rendered view.
people_store(r, fault) ==
    IF r.exists
    THEN LET w == update(objects, r.key, to_dict(r.people), fault)
         IN [objects |-> w.collection,
             call |-> Call("update", "OBJECTS"),
             err |-> w.err,
             response |-> "render people.html",
             flash |-> IF w.err # ""
                       THEN <<"WARNING: failed to update {key} in {c_name}, {err}">>
                       ELSE <<"{people.cl_people_id} updated">>]
    ELSE LET w == create(objects, r.key, to_dict(r.people), fault)
         IN [objects |-> w.collection,
             call |-> Call("create", "OBJECTS"),
             err |-> w.err,
             response |-> "render people.html",
             flash |-> IF w.err # ""
                       THEN <<"WARNING: failed to create {key} in {c_name}, {err}">>
                       ELSE <<"{people.cl_people_id} created">>]

\* GET,POST /people from the write to the rendered view (routes.py 69-82).
people_write(s, fault) ==
    /\ pc[s] = "write"
    /\ LET w == people_store(req[s], fault)
       IN /\ objects' = w.objects
          /\ last' = Completed(s, "people", "POST", req[s].key,
                               w.response, w.flash, req[s].calls \o <<w.call>>)
    /\ pc' = [pc EXCEPT ![s] = "idle"]
    /\ req' = [req EXCEPT ![s] = None]
    /\ UNCHANGED <<users, session, loaded_is_authenticated, removed>>

----------------------------------------------------------------------------
\* External provisioning removes an identity record.
Deprovision(u) ==
    /\ removed < MaxRemoved
    /\ u \in DOMAIN users
    /\ users' = [k \in DOMAIN users \ {u} |-> users[k]]
    /\ removed' = removed + 1
    /\ UNCHANGED <<objects, session, pc, req, last, loaded_is_authenticated>>

Next ==
    \/ \E s \in Sessions : index(s)
    \/ \E s \in Sessions, r \in LoginRequests : login(s, r)
    \/ \E s \in Sessions : logout(s)
    \/ \E s \in Sessions, r \in PeopleRequests : people_begin(s, r)
    \/ \E s \in Sessions, fault \in BOOLEAN : people_write(s, fault)
    \/ \E u \in Usernames : Deprovision(u)

Spec == Init /\ [][Next]_vars

----------------------------------------------------------------------------
\* The session states of the specification: Anonymous is a session that
\* stores no user id, Authenticated as u one that stores u.  A request
\* passes the authentication gate when its current_user is authenticated.
Anonymous(s) == session[s] = NoUserId

AuthenticatedAs(s, u) == u # NoUserId /\ session[s] = u

PassesGate(s) == current_user(s).is_authenticated

\* How many calls of `op` a call log holds.
Count(calls, op) == Cardinality({i \in DOMAIN calls : calls[i].op = op})

\* The calls of a log that go to the People collection.
ObjectCalls(calls) == {i \in DOMAIN calls : calls[i].c_name = "OBJECTS"}

\* A validated login submission.
ValidLoginPost(r) == r.method = "POST" /\ LoginForm_validate(r)

\* A validated People submission.
ValidPeoplePost(r) == r.method = "POST" /\ PeopleForm_validate(r.form, r.others_ok)

C2_WrongPasswordUnauthorized ==
    \A s \in Sessions, r \in LoginRequests :
       ( /\ Anonymous(s)
         /\ ValidLoginPost(r)
         /\ has_key(users, r.username)
         /\ ~check_password_hash(users[r.username].password_hash, r.password) )
       => /\ login_result(s, r).response = "abort 401"
          /\ login_result(s, r).session = session
          /\ login_result(s, r).session[s] = NoUserId

\* C2 witness: a login POST naming a stored user was answered 401 and the
\* session is Anonymous.
C2_Witness ==
    /\ last.route = "login"
    /\ last.method = "POST"
    /\ last.subject \in DOMAIN users
    /\ last.response = "abort 401"
    /\ Anonymous(last.sid)

\* C3: a validated login POST from an Anonymous session for a username that
\* the identity collection does not hold is answered 401 whatever the
\* password, and no session is established.
C3_UnknownUserUnauthorized ==
    \A s \in Sessions, r \in LoginRequests :
       ( /\ Anonymous(s)
         /\ ValidLoginPost(r)
         /\ ~has_key(users, r.username) )
       => /\ login_result(s, r).response = "abort 401"
          /\ login_result(s, r).session = session
          /\ login_result(s, r).session[s] = NoUserId

\* C3 witness: a login POST naming a user that was never provisioned was
\* answered 401 and the session is Anonymous.
C3_Witness ==
    /\ last.route = "login"
    /\ last.method = "POST"
    /\ last.subject \in Usernames \ Provisioned
    /\ last.response = "abort 401"
    /\ Anonymous(last.sid)

\* C4: a validated login POST from an Anonymous session with a stored
\* username and its password binds that username to the session, leaves the
\* other sessions alone and redirects to the home view; a logout of the
\* session so bound returns it to Anonymous.
C4_LoginBindsThenLogoutClears ==
    \A s \in Sessions, r \in LoginRequests :
       ( /\ Anonymous(s)
         /\ ValidLoginPost(r)
         /\ has_key(users, r.username)
         /\ check_password_hash(users[r.username].password_hash, r.password) )
       => /\ login_result(s, r).response = "redirect index"
          /\ login_result(s, r).session = [session EXCEPT ![s] = r.username]
          /\ logout_result(login_result(s, r).session, s).session[s] = NoUserId
          /\ logout_result(login_result(s, r).session, s).session = session

\* C4 witness: a session that a login had bound (its logout resolved a
\* stored user id) was logged out and is Anonymous.
C4_Witness ==
    /\ last.route = "logout"
    /\ last.calls # << >>
    /\ last.response = "redirect index"
    /\ Anonymous(last.sid)

\* C5: logout, from an Anonymous and from a bound session alike, leaves the
\* session Anonymous and the other sessions alone, redirects to the home
\* view and makes no create or update call; a second logout gives the
\* session state and the response of the first.
C5_LogoutIdempotent ==
    \A s \in Sessions :
       LET once == logout_result(session, s)
           twice == logout_result(once.session, s)
       IN /\ once.session[s] = NoUserId
          /\ \A o \in Sessions \ {s} : once.session[o] = session[o]
          /\ once.response = "redirect index"
          /\ Count(once.calls, "create") = 0
          /\ Count(once.calls, "update") = 0
          /\ twice.session = once.session
          /\ twice.response = once.response
          /\ Count(twice.calls, "create") + Count(twice.calls, "update") = 0

\* C5 witness: a session that was already Anonymous (its logout resolved no
\* user id) was logged out, was redirected to the home view and is Anonymous.
C5_Witness ==
    /\ last.route = "logout"
    /\ last.calls = << >>
    /\ last.response = "redirect index"
    /\ Anonymous(last.sid)

\* The write step of session s: its pending request writes and is answered.
WriteStep(s) == pc[s] = "write" /\ pc'[s] = "idle"

\* A validated People submission of a session that passes the gate, with a
\* non-empty cl_people_id the People collection does not hold, goes on to the
\* write with the key recorded as absent and no create or update call made.
AbsentKeyGoesToCreate ==
    \A s \in Sessions, r \in PeopleRequests :
       ( /\ PassesGate(s)
         /\ ValidPeoplePost(r)
         /\ ~has_key(objects, r.form.cl_people_id) )
       => /\ people_check(s, r).step = "write"
          /\ people_check(s, r).key = r.form.cl_people_id
          /\ people_check(s, r).exists = FALSE
          /\ Count(people_check(s, r).calls, "create") = 0
          /\ Count(people_check(s, r).calls, "update") = 0

\* C6: a validated People submission of a session that passes the gate,
\* with a non-empty cl_people_id the People collection does not hold, goes
\* on to the write with the key recorded as absent; the write of a request
\* whose key was absent makes exactly one create call and no update call in
\* the whole request, and when that create reports no error the collection
\* holds the key afterwards, under the submitted record.
C6_CreateWhenAbsent ==
    /\ []AbsentKeyGoesToCreate
    /\ [][\A s \in Sessions :
             (WriteStep(s) /\ ~req[s].exists)
             => /\ Count(last'.calls, "create") = 1
                /\ Count(last'.calls, "update") = 0
                /\ last'.flash \in
                      {<<"{people.cl_people_id} created">>,
                       <<"WARNING: failed to create {key} in {c_name}, {err}">>}
                /\ last'.flash = <<"{people.cl_people_id} created">>
                      => /\ has_key(objects', req[s].key)
                         /\ objects'[req[s].key] = req[s].form]_vars

\* C6 as stated: after the one create call the collection holds the key,
\* whether or not the create reported an error.
C6_AsStated ==
    [][\A s \in Sessions :
          (WriteStep(s) /\ ~req[s].exists)
          => /\ Count(last'.calls, "create") = 1
             /\ Count(last'.calls, "update") = 0
             /\ has_key(objects', req[s].key)]_vars

\* C6 witness: a submission was answered "created" after one create call
\* and no update call, and the collection holds its key.
C6_Witness ==
    /\ last.route = "people"
    /\ last.flash = <<"{people.cl_people_id} created">>
    /\ Count(last.calls, "create") = 1
    /\ Count(last.calls, "update") = 0
    /\ has_key(objects, last.subject)

\* A validated People submission of a session that passes the gate, with a
\* cl_people_id the People collection holds, goes on to the write with the
\* key recorded as present and no create or update call made.
PresentKeyGoesToUpdate ==
    \A s \in Sessions, r \in PeopleRequests :
       ( /\ PassesGate(s)
         /\ ValidPeoplePost(r)
         /\ has_key(objects, r.form.cl_people_id) )
       => /\ people_check(s, r).step = "write"
          /\ people_check(s, r).key = r.form.cl_people_id
          /\ people_check(s, r).form = r.form
          /\ people_check(s, r).exists = TRUE
          /\ Count(people_check(s, r).calls, "create") = 0
          /\ Count(people_check(s, r).calls, "update") = 0

\* C7: a validated People submission of a session that passes the gate,
\* with a cl_people_id the People collection holds, goes on to the write
\* with the key recorded as present; the write of a request whose key was
\* present makes exactly one update call and no create call in the whole
\* request, and when that update reports no error the stored record is the
\* submission, field by field: a field the submission left out is blank in
\* the store, whatever it held before.
C7_UpdateOverwrites ==
    /\ []PresentKeyGoesToUpdate
    /\ [][\A s \in Sessions :
             (WriteStep(s) /\ req[s].exists)
             => /\ Count(last'.calls, "update") = 1
                /\ Count(last'.calls, "create") = 0
                /\ last'.flash \in
                      {<<"{people.cl_people_id} updated">>,
                       <<"WARNING: failed to update {key} in {c_name}, {err}">>}
                /\ last'.flash = <<"{people.cl_people_id} updated">>
                      => /\ DOMAIN objects'[req[s].key] = PeopleFields
                         /\ \A f \in PeopleFields :
                               /\ objects'[req[s].key][f] = req[s].form[f]
                               /\ req[s].form[f] = ""
                                     => objects'[req[s].key][f] = ""]_vars

\* C7 as stated: after the one update call every field the submission left
\* out is blank in the store, whether or not the update reported an error.
C7_AsStated ==
    [][\A s \in Sessions :
          (WriteStep(s) /\ req[s].exists)
          => /\ Count(last'.calls, "update") = 1
             /\ Count(last'.calls, "create") = 0
             /\ \A f \in PeopleFields :
                   req[s].form[f] = "" => objects'[req[s].key][f] = ""]_vars

\* C7 witness: a submission that left given_name out was answered "updated"
\* after one update call and no create call, and the stored given_name is
\* blank.
C7_Witness ==
    /\ last.route = "people"
    /\ last.flash = <<"{people.cl_people_id} updated">>
    /\ Count(last.calls, "update") = 1
    /\ Count(last.calls, "create") = 0
    /\ has_key(objects, last.subject)
    /\ objects[last.subject].family_name = "Smith-Jones"
    /\ objects[last.subject].given_name = ""

\* C8: a People submission with an empty cl_people_id ends at the
\* validation, with no create or update call; no pending write has an empty
\* key or a key other than its record's cl_people_id; and the People
\* collection never holds a record under the empty key.
C8_EmptyKeyRejected ==
    /\ ~has_key(objects, "")
    /\ \A s \in Sessions, r \in PeopleRequests :
          r.form.cl_people_id = ""
          => /\ people_check(s, r).step = "done"
             /\ Count(people_check(s, r).calls, "create") = 0
             /\ Count(people_check(s, r).calls, "update") = 0
    /\ \A s \in Sessions :
          pc[s] = "write" => req[s].key # "" /\ req[s].key = req[s].people.cl_people_id

\* C8 witness: a POST with an empty cl_people_id of a session that passes
\* the gate was answered with the people view and wrote nothing.
C8_Witness ==
    /\ last.route = "people"
    /\ last.method = "POST"
    /\ last.subject = ""
    /\ last.response = "render people.html"
    /\ ObjectCalls(last.calls) = {}
    /\ PassesGate(last.sid)
    /\ ~has_key(objects, "")

\* The outcome of a POST to /people that passes the gate and fails
\* validation: the people view, no message and no call on the People
\* collection (no has_key, no create, no update).
InvalidFormRendersOnly ==
    \A s \in Sessions, r \in PeopleRequests :
       ( /\ PassesGate(s)
         /\ r.method = "POST"
         /\ ~PeopleForm_validate(r.form, r.others_ok) )
       => /\ people_check(s, r) =
                [step |-> "done", response |-> "render people.html",
                 flash |-> << >>, calls |-> LoadCalls(s)]
          /\ ObjectCalls(people_check(s, r).calls) = {}

\* C9: a POST to /people of a session that passes the gate whose form fails
\* validation ends with the people view rendered and no call on the People
\* collection, and the People collection changes in no step but the write of
\* a request that passed validation.
C9_InvalidFormNoWrite ==
    /\ []InvalidFormRendersOnly
    /\ [][objects' # objects => \E s \in Sessions : WriteStep(s)]_vars

\* C9 witness: a POST carrying a key that the form layer rejected was
\* answered with the people view, without a call on the People collection.
C9_Witness ==
    /\ last.route = "people"
    /\ last.method = "POST"
    /\ last.subject \in Keys
    /\ last.response = "render people.html"
    /\ last.flash = << >>
    /\ ObjectCalls(last.calls) = {}
    /\ PassesGate(last.sid)

Warnings ==
    {<<"WARNING: failed to update {key} in {c_name}, {err}">>,
     <<"WARNING: failed to create {key} in {c_name}, {err}">>}

Confirmations ==
    {<<"{people.cl_people_id} updated">>, <<"{people.cl_people_id} created">>}

\* The outcome of the write of a /people request: the people view, with a
\* warning and the collection untouched when create or update reports an
\* error, with a confirmation when it reports none, for a session that is
\* bound; and a request that passes the gate either goes on to the write or
\* renders the people view.
WriteAlwaysRenders ==
    /\ \A s \in Sessions, fault \in BOOLEAN :
          pc[s] = "write"
          => /\ people_store(req[s], fault).response = "render people.html"
             /\ people_store(req[s], fault).err # ""
                   => /\ people_store(req[s], fault).flash \in Warnings
                      /\ people_store(req[s], fault).objects = objects
             /\ people_store(req[s], fault).err = ""
                   => people_store(req[s], fault).flash \in Confirmations
             /\ ~Anonymous(s)
    /\ \A s \in Sessions, r \in PeopleRequests :
          PassesGate(s)
          => \/ people_check(s, r).step = "write"
             \/ /\ people_check(s, r).step = "done"
                /\ people_check(s, r).response = "render people.html"

\* C10: a /people request whose create or update reports an error is not
\* aborted: it flashes a warning and renders the people view, as a
\* successful one does with its confirmation; every request that passes the
\* gate ends with the people view; and the write step leaves every session
\* bound as it was.
C10_StoreFailureStillRenders ==
    /\ []WriteAlwaysRenders
    /\ [][(\E s \in Sessions : WriteStep(s)) =>
             /\ session' = session
             /\ last'.response = "render people.html"]_vars

\* C10 witness: a write that the store refused was answered with the people
\* view and a warning, and its session is still bound.
C10_Witness ==
    /\ last.route = "people"
    /\ last.flash \in Warnings
    /\ last.response = "render people.html"
    /\ ~Anonymous(last.sid)

----------------------------------------------------------------------------
\* C11: the existence check and the write of a /people request are two
\* steps, and the write uses the result of the check as it was.  A write
\* whose check found the key absent calls create even when another session
\* has created the key since: that create reports an error and changes
\* nothing (duplicate create).  A write whose check found the key present
\* puts its own record under the key whatever another session has written
\* there since (lost update).  And a write leaves the pending request of
\* every other session as it is, with the result of its check unrefreshed.
C11_CheckThenWriteNotAtomic ==
    [][\A s \in Sessions :
          WriteStep(s)
          => /\ (~req[s].exists /\ has_key(objects, req[s].key))
                   => /\ Count(last'.calls, "create") = 1
                      /\ Count(last'.calls, "update") = 0
                      /\ last'.flash
                            = <<"WARNING: failed to create {key} in {c_name}, {err}">>
                      /\ objects' = objects
             /\ (req[s].exists /\ last'.flash = <<"{people.cl_people_id} updated">>)
                   => objects'[req[s].key] = req[s].form
             /\ \A o \in Sessions \ {s} :
                   pc[o] = "write" => pc'[o] = "write" /\ req'[o] = req[o]]_vars

\* C11 witness (duplicate create): a request whose check had found its key
\* absent made its create call and was answered with the warning, and the
\* collection holds the key: another session created it between the check
\* and the write.
C11_Witness ==
    /\ last.route = "people"
    /\ last.flash = <<"WARNING: failed to create {key} in {c_name}, {err}">>
    /\ Count(last.calls, "create") = 1
    /\ has_key(objects, last.subject)

\* C11, the lost update: both sessions have found the same key present and
\* are about to write different records, after one of them has already
\* written over the record that was there: whichever writes first is
\* overwritten by the other, whose check came before that write.
C11_LostUpdateReached ==
    \E s \in Sessions, o \in Sessions :
       /\ s # o
       /\ pc[s] = "write" /\ pc[o] = "write"
       /\ req[s].exists /\ req[o].exists
       /\ req[s].key = req[o].key
       /\ req[s].form # req[o].form
       /\ objects[req[s].key] = req[o].form

\* C12: the key set of the People collection only grows: a key that the
\* collection holds is held after every step.
C12_KeysOnlyGrow ==
    [][DOMAIN objects \subseteq DOMAIN objects']_vars

\* C12 witness: the collection holds both keys, and the request that
\* completed last was an update of one of them.
C12_Witness ==
    /\ DOMAIN objects = Keys
    /\ last.route = "people"
    /\ last.flash = <<"{people.cl_people_id} updated">>

\* C13: no route changes the identity collection: it changes only when
\* external provisioning removes a record, and no request makes a create or
\* update call on it.
C13_UsersReadOnly ==
    /\ [][removed' = removed => users' = users]_vars
    /\ [](\A i \in DOMAIN last.calls :
             last.calls[i].c_name = "USERS" => last.calls[i].op = "has_key")

\* C13 witness: after a login, a session created a People record, with the
\* identity collection the one the application started with.
C13_Witness ==
    /\ last.route = "people"
    /\ last.flash = <<"{people.cl_people_id} created">>
    /\ removed = 0
    /\ DOMAIN users = Provisioned
    /\ \A u \in Provisioned :
          users[u].password_hash = generate_password_hash(PasswordOf(u))

\* C14: a login request of a session that passes the gate is answered with
\* the redirect to the home view and nothing else: no flash and no 401, no
\* call for the submitted username, and the stored user id of every session
\* as it was, whatever username and password were submitted.
C14_LoginShortCircuits ==
    \A s \in Sessions, r \in LoginRequests :
       PassesGate(s)
       => login_result(s, r) = [session |-> session,
                                response |-> "redirect index",
                                flash |-> << >>,
                                calls |-> LoadCalls(s)]

\* C14 witness: a session that passes the gate posted a login for another
\* username than its own and was redirected without a flash, still bound to
\* its own user.
C14_Witness ==
    /\ last.route = "login"
    /\ last.method = "POST"
    /\ last.response = "redirect index"
    /\ last.flash = << >>
    /\ PassesGate(last.sid)
    /\ last.subject # session[last.sid]

\* C15: for every username that the identity collection does not hold,
\* load_user returns None, and a session that stores that username has the
\* anonymous user as its current user: its /people requests are redirected
\* to login and its other requests are answered as for a caller who is not
\* logged in, none of them aborted.
C15_MissingUserLoadsNone ==
    \A u \in Usernames :
       ~has_key(users, u)
       => /\ load_user(u) = None
          /\ \A s \in Sessions :
                session[s] = u
                => /\ current_user(s) = AnonymousUser
                   /\ \A r \in PeopleRequests :
                         /\ people_check(s, r).step = "done"
                         /\ people_check(s, r).response = "redirect login"
                   /\ index_result(s).response # "abort 401"
                   /\ logout_result(session, s).session[s] = NoUserId
                   /\ \A r \in LoginRequests :
                         ~ValidLoginPost(r)
                         => login_result(s, r).response = "render login.html"

\* C15 witness: a session stores the id of a user whose record was removed
\* after the login, and its /people request was redirected to login after
\* the one has_key of the loader.
C15_Witness ==
    /\ last.route = "people"
    /\ last.response = "redirect login"
    /\ session[last.sid] # NoUserId
    /\ ~has_key(users, session[last.sid])
    /\ last.calls = <<Call("has_key", "USERS")>>

\* C16: a login, failed login or logout of one session leaves the stored
\* user id of every other session as it is; the stored user id of a session
\* changes only in a step that completes a login or logout request of that
\* session, and whether a session passes the gate changes only with its own
\* stored user id or with the identity collection.
C16_SessionsIsolated ==
    /\ [](\A s \in Sessions, o \in Sessions :
             o # s
             => /\ logout_result(session, s).session[o] = session[o]
                /\ \A r \in LoginRequests :
                      login_result(s, r).session[o] = session[o])
    /\ [][\A o \in Sessions :
             /\ session'[o] # session[o]
                   => last'.sid = o /\ last'.route \in {"login", "logout"}
             /\ (session'[o] = session[o] /\ users' = users)
                   => PassesGate(o)' = PassesGate(o)]_vars

\* C16 witness: a logged-in session logged out and stores no user id, while
\* the other session still stores the id it logged in with.
C16_Witness ==
    /\ last.route = "logout"
    /\ last.calls # << >>
    /\ Anonymous(last.sid)
    /\ \E o \in Sessions \ {last.sid} : session[o] \in DOMAIN users

\* C17: a /people request of a session that logged in, has not logged out
\* since and whose user record is still in the identity collection is not
\* redirected to login.  Stated on the request completed last: while its
\* session stores the id of a user the identity collection holds, it was not
\* answered with the redirect to login.
C17_AsStated ==
    (/\ last.route = "people"
     /\ session[last.sid] # NoUserId
     /\ has_key(users, session[last.sid]))
    => last.response # "redirect login"

\* C18: the stored user id of a session becomes a user's id only in the step
\* that completes a login POST of that session for that username which
\* passed validation and check_password; a request that is not such a login
\* leaves the stored ids as they are or, for logout, clears the session's
\* own; and a session passes the gate only while it stores the id of a user
\* that the identity collection holds.
C18_OnlyLoginAuthenticates ==
    /\ [](\A s \in Sessions :
             /\ PassesGate(s) => session[s] \in DOMAIN users
             /\ logout_result(session, s).session[s] = NoUserId
             /\ \A r \in LoginRequests :
                   login_result(s, r).session # session
                   => /\ ValidLoginPost(r)
                      /\ has_key(users, r.username)
                      /\ check_password_hash(users[r.username].password_hash,
                                             r.password)
                      /\ login_result(s, r).session
                            = [session EXCEPT ![s] = r.username])
    /\ [][\A s \in Sessions :
             (session'[s] # session[s] /\ session'[s] # NoUserId)
             => /\ last'.sid = s
                /\ last'.route = "login"
                /\ last'.method = "POST"
                /\ last'.subject = session'[s]
                /\ last'.response = "redirect index"
                /\ last'.flash = <<"Logged in successfully.">>]_vars

\* C18 witness: a session that stored no user id posted a login that passed
\* check_password and stores that user's id.
C18_Witness ==
    /\ last.route = "login"
    /\ last.flash = <<"Logged in successfully.">>
    /\ session[last.sid] = last.subject
    /\ has_key(users, last.subject)
    /\ last.calls = UserCalls

\* C19: every record of the People collection is stored under its own
\* cl_people_id, a pending write has the cl_people_id of its form as its
\* key, and a write step changes nothing but the record under that key.
C19_KeyIsOwnId ==
    /\ [](\A k \in DOMAIN objects : objects[k].cl_people_id = k)
    /\ [](\A s \in Sessions :
             pc[s] = "write" => req[s].key = req[s].form.cl_people_id)
    /\ [][\A s \in Sessions :
             WriteStep(s)
             => /\ DOMAIN objects' \subseteq DOMAIN objects \cup {req[s].key}
                /\ \A k \in DOMAIN objects :
                      k # req[s].key
                      => k \in DOMAIN objects' /\ objects'[k] = objects[k]]_vars

\* C19 witness: the collection holds both keys with different records, each
\* under its own cl_people_id, and the request completed last updated one of
\* them to the record it submitted.
C19_Witness ==
    /\ DOMAIN objects = Keys
    /\ last.route = "people"
    /\ last.flash = <<"{people.cl_people_id} updated">>
    /\ objects[last.subject].cl_people_id = last.subject
    /\ \E k \in Keys \ {last.subject} :
          /\ objects[k].cl_people_id = k
          /\ objects[k].family_name # objects[last.subject].family_name
====
